---- MODULE Spec2Model ----
(***************************************************************************)
(* A model of emulator.py: the in-memory VFS tree (VFS, VFSNode), the      *)
(* command interpreter (Shell) and the script runner (App.run_script).     *)
(*                                                                         *)
(* Strings are sequences of one-character strings, so that strip, split,   *)
(* join and lexicographic sorting are computed as Python computes them.    *)
(* A path in the tree is a sequence of segments, each segment a string.    *)
(* The tree is a function from the paths of its nodes to the nodes' fields *)
(* (the children of the node at p are the nodes at p \o <<name>>).         *)
(***************************************************************************)
EXTENDS Integers, Sequences, FiniteSets, TLC

VARIABLES
    vfsname, \* VFS.name
    tree,    \* VFS.root and its descendants: path -> [name, type, owner, content]
    phase,   \* "load" | "failed" | "shell" | "script" | "closed" | "norm"
    cwd,     \* Shell.cwd_parts
    user,    \* Shell.user
    text,    \* App.text: the lines printed so far
    script,  \* the lines App.run_script was called with
    pc,      \* index in script of the next line run_script takes
    steps,   \* how many calls (load phase) or lines (session) were taken so far
    last,    \* the last call made: its operation, arguments and outcome
    prev     \* tree and cwd as they were when the last call was made

vars == <<tree, vfsname, phase, cwd, user, text, script, pc, steps, last, prev>>

(***************************************************************************)
(* Characters and strings                                                  *)
(***************************************************************************)

\* The characters of the model in code-point order (Python compares strings
\* by code point).
CharOrder ==
    <<" ", "-", ".", "/", "0", "1", "2", "3", "4", "5", "6", "7", "8", "9",
      "B", "a", "b", "c", "d", "e", "f", "g", "h", "i", "j", "k", "l", "m",
      "n", "o", "p", "q", "r", "s", "t", "u", "v", "w", "x", "y", "z">>

Ord(c) == CHOOSE i \in 1..Len(CharOrder) : CharOrder[i] = c

\* a < b for Python strings
StrLess(a, b) ==
    \E k \in 1..(Len(a) + 1) :
        /\ k <= Len(b)
        /\ \A j \in 1..(k - 1) : a[j] = b[j]
        /\ (k = Len(a) + 1 \/ Ord(a[k]) < Ord(b[k]))

IsSpace(c) == c = " "

RECURSIVE LStrip(_)
LStrip(s) == IF s # <<>> /\ IsSpace(Head(s)) THEN LStrip(Tail(s)) ELSE s

RECURSIVE RStrip(_)
RStrip(s) ==
    IF s # <<>> /\ IsSpace(s[Len(s)]) THEN RStrip(SubSeq(s, 1, Len(s) - 1)) ELSE s

\* str.strip()
Strip(s) == RStrip(LStrip(s))

\* str.split(sep): the pieces between the separators, empty ones kept
RECURSIVE SplitOn(_, _)
SplitOn(s, sep) ==
    IF \A i \in 1..Len(s) : s[i] # sep
    THEN <<s>>
    ELSE LET i == CHOOSE k \in 1..Len(s) :
                      s[k] = sep /\ \A j \in 1..(k - 1) : s[j] # sep
         IN  <<SubSeq(s, 1, i - 1)>> \o SplitOn(SubSeq(s, i + 1, Len(s)), sep)

\* sep.join(parts)
RECURSIVE Join(_, _)
Join(parts, sep) ==
    IF parts = <<>> THEN <<>>
    ELSE IF Len(parts) = 1 THEN parts[1]
    ELSE parts[1] \o sep \o Join(Tail(parts), sep)

\* Sorted in descending order (sorted(..., reverse=True))
RECURSIVE SortedDescending(_)
SortedDescending(S) ==
    IF S = {} THEN <<>>
    ELSE LET m == CHOOSE x \in S : \A y \in S \ {x} : StrLess(y, x)
         IN  <<m>> \o SortedDescending(S \ {m})

\* sorted(S) for a set of strings
RECURSIVE Sorted(_)
Sorted(S) ==
    IF S = {} THEN <<>>
    ELSE LET m == CHOOSE x \in S : \A y \in S \ {x} : StrLess(x, y)
         IN  <<m>> \o Sorted(S \ {m})

(***************************************************************************)
(* VFS: path normalisation                                                 *)
(***************************************************************************)

Dot == <<".">>
DotDot == <<".", ".">>
Slash == <<"/">>

\* VFS._split
VSplit(path) ==
    LET p1 == Strip(path)
        p2 == IF p1 # <<>> /\ Head(p1) = "/" THEN Tail(p1) ELSE p1
    IN  SelectSeq(SplitOn(p2, "/"), LAMBDA p : p # <<>> /\ p # Dot)

\* Collapse keeping a ".." that has nothing to pop
RECURSIVE CollapseUnclamped(_, _)
CollapseUnclamped(out, parts) ==
    IF parts = <<>> THEN out
    ELSE IF Head(parts) = <<".", ".">> /\ out # <<>>
         THEN CollapseUnclamped(SubSeq(out, 1, Len(out) - 1), Tail(parts))
         ELSE CollapseUnclamped(Append(out, Head(parts)), Tail(parts))

\* the loop of VFS.abspath_parts: ".." pops (not below the root), the rest is
\* appended
RECURSIVE Collapse(_, _)
Collapse(out, parts) ==
    IF parts = <<>> THEN out
    ELSE IF Head(parts) = DotDot
         THEN Collapse(IF out # <<>> THEN SubSeq(out, 1, Len(out) - 1) ELSE out,
                       Tail(parts))
         ELSE Collapse(Append(out, Head(parts)), Tail(parts))

\* VFS.abspath_parts
AbspathParts(cwd_parts, path) ==
    IF path = <<>> \/ path = Dot THEN cwd_parts
    ELSE Collapse(<<>>, IF Head(path) = "/" THEN VSplit(path)
                        ELSE cwd_parts \o VSplit(path))

\* "/" + "/".join(parts)
AbsString(parts) == Slash \o Join(parts, Slash)

(***************************************************************************)
(* VFS: the tree                                                           *)
(***************************************************************************)

\* Python's None where a string is expected
None == <<"None">>

\* VFSNode(name, type, owner, content_b64); children start empty
VFSNode(name, type, owner, content) ==
    [name |-> name, type |-> type, owner |-> owner, content |-> content]

IsDir(node) == node.type = "dir"
IsFile(node) == node.type = "file"

sRoot == <<"r", "o", "o", "t">>
sUser == <<"u", "s", "e", "r">>

\* VFS.__init__
NewVFS == (<<>> :> VFSNode(Slash, "dir", sRoot, None))

IsPrefix(p, q) == Len(p) <= Len(q) /\ SubSeq(q, 1, Len(p)) = p

\* node.children of the node at path p: the keys of the dict
ChildNames(t, p) ==
    {q[Len(q)] : q \in {r \in DOMAIN t : Len(r) = Len(p) + 1 /\ IsPrefix(p, r)}}

\* An exception: its class and str(e), the latter as the fixed text and the
\* interpolated value of the f-string. NoError: the call returned.
NoError == [type |-> "none", msg |-> "", arg |-> <<>>]
Error(type, msg, arg) == [type |-> type, msg |-> msg, arg |-> arg]
IsOk(e) == e.type = "none"

\* Walk refusing to descend from a node that is not a directory
RECURSIVE WalkChecked(_, _, _, _)
WalkChecked(t, cur, rest, parts) ==
    IF rest = <<>> THEN [err |-> NoError, at |-> cur]
    ELSE IF ~IsDir(t[cur])
         THEN [err |-> Error("NotADirectoryError", "not a directory", <<>>), at |-> cur]
    ELSE IF Head(rest) \notin ChildNames(t, cur)
         THEN [err |-> Error("KeyError", "path not found: ", AbsString(parts)),
               at |-> cur]
         ELSE WalkChecked(t, Append(cur, Head(rest)), Tail(rest), parts)

\* the loop of VFS.get from the node at path cur
RECURSIVE Walk(_, _, _, _)
Walk(t, cur, rest, parts) ==
    IF rest = <<>> THEN [err |-> NoError, at |-> cur]
    ELSE IF Head(rest) \notin ChildNames(t, cur)
         THEN [err |-> Error("KeyError", "path not found: ", AbsString(parts)),
               at |-> cur]
         ELSE Walk(t, Append(cur, Head(rest)), Tail(rest), parts)

\* VFS.get: the path of the node found
Get(t, cwd_parts, path) ==
    LET parts == AbspathParts(cwd_parts, path)
    IN  Walk(t, <<>>, parts, parts)

\* VFS.listdir: the children in the order returned
Listdir(t, at) ==
    IF ~IsDir(t[at])
    THEN [err |-> Error("NotADirectoryError", "not a directory", <<>>), val |-> <<>>]
    ELSE [err |-> NoError,
          val |-> LET names == Sorted(ChildNames(t, at))
                  IN  [i \in 1..Len(names) |-> t[Append(at, names[i])]]]

\* Chdir accepting whatever node the path leads to
ChdirAny(t, cwd_parts, path) ==
    LET g == Get(t, cwd_parts, path)
    IN  IF ~IsOk(g.err) THEN [err |-> g.err, val |-> cwd_parts]
        ELSE [err |-> NoError, val |-> AbspathParts(cwd_parts, path)]

\* VFS.chdir
Chdir(t, cwd_parts, path) ==
    LET g == Get(t, cwd_parts, path)
    IN  IF ~IsOk(g.err) THEN [err |-> g.err, val |-> cwd_parts]
        ELSE IF ~IsDir(t[g.at])
             THEN [err |-> Error("NotADirectoryError", "not a directory", <<>>),
                   val |-> cwd_parts]
             ELSE [err |-> NoError, val |-> AbspathParts(cwd_parts, path)]

\* VFS._mkdirs from the node at path cur; the tree is returned as the loop
\* left it, also when it raises
RECURSIVE MkdirsFrom(_, _, _)
MkdirsFrom(t, cur, rest) ==
    IF rest = <<>> THEN [err |-> NoError, tree |-> t, at |-> cur]
    ELSE LET p  == Head(rest)
             nx == Append(cur, p)
             t1 == IF p \notin ChildNames(t, cur)
                   THEN (nx :> VFSNode(p, "dir", sRoot, None)) @@ t
                   ELSE t
         IN  IF ~IsDir(t1[nx])
             THEN [err |-> Error("ValueError", "path conflicts with file", <<>>),
                   tree |-> t1, at |-> nx]
             ELSE MkdirsFrom(t1, nx, Tail(rest))

\* Mkdirs handing every directory on the way to "root"
MkdirsChown(t, parts) ==
    LET m == MkdirsFrom(t, <<>>, parts)
    IN  IF ~IsOk(m.err) THEN m
        ELSE [m EXCEPT !.tree = [q \in DOMAIN m.tree |->
                                    IF IsPrefix(q, m.at)
                                    THEN [m.tree[q] EXCEPT !.owner = sRoot]
                                    ELSE m.tree[q]]]

Mkdirs(t, parts) == MkdirsFrom(t, <<>>, parts)

\* AddDir giving the owner to the directory it got to when _mkdirs raises
AddDirOwnerAnyway(t, path, owner) ==
    LET m == Mkdirs(t, VSplit(path))
    IN  IF ~IsOk(m.err)
        THEN [err |-> m.err,
              tree |-> [m.tree EXCEPT ![SubSeq(m.at, 1, Len(m.at) - 1)].owner = owner]]
        ELSE [err |-> NoError,
              tree |-> [m.tree EXCEPT ![m.at].owner = owner]]

\* AddDir putting a new node at the path instead of reusing the one there
AddDirReplace(t, path, owner) ==
    LET m == Mkdirs(t, VSplit(path))
    IN  IF ~IsOk(m.err) THEN [err |-> m.err, tree |-> m.tree]
        ELSE [err |-> NoError,
              tree |-> (m.at :> VFSNode(IF m.at = <<>> THEN Slash ELSE m.at[Len(m.at)],
                                        "dir", owner, None))
                       @@ [q \in {r \in DOMAIN m.tree : ~IsPrefix(m.at, r)} |-> m.tree[q]]]

\* VFS.add_dir
AddDir(t, path, owner) ==
    LET m == Mkdirs(t, VSplit(path))
    IN  IF ~IsOk(m.err) THEN [err |-> m.err, tree |-> m.tree]
        ELSE [err |-> NoError,
              tree |-> [m.tree EXCEPT ![m.at].owner = owner]]

\* SetChild replacing the whole dict (d.children = {fname: node})
SetChildOnly(t, at, node) ==
    LET d    == SubSeq(at, 1, Len(at) - 1)
        keep == {q \in DOMAIN t : ~(IsPrefix(d, q) /\ q # d)}
    IN  (at :> node) @@ [q \in keep |-> t[q]]

\* d.children[fname] = node: the node that was there, if any, goes with its
\* subtree
SetChild(t, at, node) ==
    LET keep == {q \in DOMAIN t : ~IsPrefix(at, q)}
    IN  (at :> node) @@ [q \in keep |-> t[q]]

\* AddFile refusing to put a file where a directory is
AddFileGuarded(t, path, owner, content_b64) ==
    LET parts == VSplit(path)
    IN  IF parts = <<>>
        THEN [err |-> Error("ValueError", "empty file path", <<>>), tree |-> t]
        ELSE LET fname == parts[Len(parts)]
                 m     == Mkdirs(t, SubSeq(parts, 1, Len(parts) - 1))
             IN  IF ~IsOk(m.err) THEN [err |-> m.err, tree |-> m.tree]
                 ELSE IF parts \in DOMAIN m.tree /\ IsDir(m.tree[parts])
                 THEN [err |-> Error("ValueError", "path conflicts with directory", <<>>),
                       tree |-> m.tree]
                 ELSE [err |-> NoError,
                       tree |-> SetChild(m.tree, Append(m.at, fname),
                                   VFSNode(fname, "file", owner,
                                       IF content_b64 = None \/ content_b64 = <<>>
                                       THEN <<>> ELSE content_b64))]

\* VFS.add_file
AddFile(t, path, owner, content_b64) ==
    LET parts == VSplit(path)
    IN  IF parts = <<>>
        THEN [err |-> Error("ValueError", "empty file path", <<>>), tree |-> t]
        ELSE LET fname == parts[Len(parts)]
                 m     == Mkdirs(t, SubSeq(parts, 1, Len(parts) - 1))
             IN  IF ~IsOk(m.err) THEN [err |-> m.err, tree |-> m.tree]
                 ELSE [err |-> NoError,
                       tree |-> SetChild(m.tree, Append(m.at, fname),
                                   VFSNode(fname, "file", owner,
                                       IF content_b64 = None \/ content_b64 = <<>>
                                       THEN <<>> ELSE content_b64))]

\* load_default_vfs
LoadDefaultVfs ==
    LET t1 == AddDir(NewVFS, <<"/", "h", "o", "m", "e", "/", "u", "s", "e", "r">>, sUser).tree
        t2 == AddFile(t1, <<"/", "h", "o", "m", "e", "/", "u", "s", "e", "r", "/", "r", "e", "a", "d", "m", "e", ".", "t", "x", "t">>,
                      sUser, <<"S", "G", "V", "s", "b", "G", "8", "g", "V", "k", "Z", "T">>).tree
        t3 == AddDir(t2, <<"/", "e", "t", "c">>, sRoot).tree
    IN  AddDir(t3, <<"/", "v", "a", "r", "/", "l", "o", "g">>, sRoot).tree

(***************************************************************************)
(* Shell                                                                   *)
(***************************************************************************)

\* Shell.parse for a line without quotes, backslashes, "$" and "#": there
\* expandvars changes nothing and shlex.split splits at the blanks
Parse(line) == SelectSeq(SplitOn(line, " "), LAMBDA tok : tok # <<>>)

\* what a command returns or raises, and Shell.cwd_parts after it
Result(err, out, cwd_parts) == [err |-> err, out |-> out, cwd |-> cwd_parts]

\* CmdLs marking every child with "/", file or directory
CmdLsAllSlash(t, cwd_parts, args) ==
    LET path == IF args # <<>> THEN args[1] ELSE AbsString(cwd_parts)
        g    == Get(t, cwd_parts, path)
    IN  IF ~IsOk(g.err) THEN Result(g.err, <<>>, cwd_parts)
        ELSE IF IsFile(t[g.at]) THEN Result(NoError, t[g.at].name, cwd_parts)
        ELSE LET l == Listdir(t, g.at)
             IN  IF ~IsOk(l.err) THEN Result(l.err, <<>>, cwd_parts)
                 ELSE Result(NoError,
                         Join([i \in 1..Len(l.val) |-> l.val[i].name \o Slash],
                              <<" ", " ">>),
                         cwd_parts)

\* CmdLs listing the root when no path is given
CmdLsFromRoot(t, cwd_parts, args) ==
    LET path == IF args # <<>> THEN args[1] ELSE Slash
        g    == Get(t, cwd_parts, path)
    IN  IF ~IsOk(g.err) THEN Result(g.err, <<>>, cwd_parts)
        ELSE IF IsFile(t[g.at]) THEN Result(NoError, t[g.at].name, cwd_parts)
        ELSE LET l == Listdir(t, g.at)
             IN  IF ~IsOk(l.err) THEN Result(l.err, <<>>, cwd_parts)
                 ELSE Result(NoError,
                         Join([i \in 1..Len(l.val) |->
                                  l.val[i].name \o
                                  (IF IsDir(l.val[i]) THEN Slash ELSE <<>>)],
                              <<" ", " ">>),
                         cwd_parts)

\* Shell.cmd_ls
CmdLs(t, cwd_parts, args) ==
    LET path == IF args # <<>> THEN args[1] ELSE AbsString(cwd_parts)
        g    == Get(t, cwd_parts, path)
    IN  IF ~IsOk(g.err) THEN Result(g.err, <<>>, cwd_parts)
        ELSE IF IsFile(t[g.at]) THEN Result(NoError, t[g.at].name, cwd_parts)
        ELSE LET l == Listdir(t, g.at)
             IN  IF ~IsOk(l.err) THEN Result(l.err, <<>>, cwd_parts)
                 ELSE Result(NoError,
                         Join([i \in 1..Len(l.val) |->
                                  l.val[i].name \o
                                  (IF IsDir(l.val[i]) THEN Slash ELSE <<>>)],
                              <<" ", " ">>),
                         cwd_parts)

\* CmdCd assigning cwd_parts before the target is looked up
CmdCdEager(t, cwd_parts, args) ==
    IF Len(args) # 1
    THEN Result(Error("ValueError", "cd: expected 1 argument", <<>>), <<>>, cwd_parts)
    ELSE LET c == Chdir(t, cwd_parts, args[1])
         IN  Result(c.err, <<>>, AbspathParts(cwd_parts, args[1]))

\* Shell.cmd_cd
CmdCd(t, cwd_parts, args) ==
    IF Len(args) # 1
    THEN Result(Error("ValueError", "cd: expected 1 argument", <<>>), <<>>, cwd_parts)
    ELSE LET c == Chdir(t, cwd_parts, args[1])
         IN  IF ~IsOk(c.err) THEN Result(c.err, <<>>, cwd_parts)
             ELSE Result(NoError, <<>>, c.val)

\* Shell.cmd_whoami
CmdWhoami(usr, cwd_parts, args) ==
    IF args # <<>>
    THEN Result(Error("ValueError", "whoami: no arguments expected", <<>>), <<>>,
                cwd_parts)
    ELSE Result(NoError, usr, cwd_parts)

IsDigit(c) == c \in {"0", "1", "2", "3", "4", "5", "6", "7", "8", "9"}

\* int(s) for a string of digits
RECURSIVE ToInt(_)
ToInt(s) ==
    IF s = <<>> THEN 0
    ELSE 10 * ToInt(SubSeq(s, 1, Len(s) - 1)) + (Ord(s[Len(s)]) - Ord("0"))

\* TextCalendar.formatmonth(y, m): the month's grid, not modelled further
FormatMonth(y, m) == <<"calendar", y, m>>

\* Shell.cmd_cal; today is (year, month) of dt.date.today()
CmdCal(today, cwd_parts, args) ==
    IF args = <<>>
    THEN Result(NoError, FormatMonth(today[1], today[2]), cwd_parts)
    ELSE IF Len(args) = 1 /\ Len(args[1]) = 7 /\ args[1][5] = "-"
    THEN LET ym == SplitOn(args[1], "-")
         IN  IF Len(ym) # 2
             THEN Result(Error("ValueError", "too many values to unpack", <<>>),
                         <<>>, cwd_parts)
             ELSE IF \E i \in 1..2 : \E j \in 1..Len(ym[i]) : ~IsDigit(ym[i][j])
             THEN Result(Error("ValueError", "invalid literal for int()", <<>>),
                         <<>>, cwd_parts)
             ELSE IF ToInt(ym[2]) \notin 1..12
             THEN Result(Error("ValueError", "bad month number", <<>>),
                         <<>>, cwd_parts)
             ELSE Result(NoError, FormatMonth(ToInt(ym[1]), ToInt(ym[2])), cwd_parts)
    ELSE Result(Error("ValueError", "cal: usage: cal [YYYY-MM]", <<>>), <<>>,
                cwd_parts)

\* s[::-1]
Reverse(s) == [i \in 1..Len(s) |-> s[Len(s) + 1 - i]]

\* Shell.cmd_rev
CmdRev(cwd_parts, args) ==
    IF args = <<>>
    THEN Result(Error("ValueError", "rev: usage: rev <text>", <<>>), <<>>, cwd_parts)
    ELSE Result(NoError, Join([i \in 1..Len(args) |-> Reverse(args[i])], <<" ">>),
                cwd_parts)

sExit == <<"e", "x", "i", "t">>
sLs == <<"l", "s">>
sCd == <<"c", "d">>
sWhoami == <<"w", "h", "o", "a", "m", "i">>
sCal == <<"c", "a", "l">>
sRev == <<"r", "e", "v">>

\* Shell.run
\* Run sending the session back to the root when the command is unknown
RunUnknownResets(t, cwd_parts, usr, today, line) ==
    LET tokens == Parse(Strip(line))
    IN  IF tokens = <<>> THEN Result(NoError, <<>>, cwd_parts)
        ELSE LET cmd  == Head(tokens)
                 args == Tail(tokens)
             IN  IF cmd = sExit
                 THEN Result(Error("SystemExit", "", <<>>), <<>>, cwd_parts)
                 ELSE IF cmd = sLs THEN CmdLs(t, cwd_parts, args)
                 ELSE IF cmd = sCd THEN CmdCd(t, cwd_parts, args)
                 ELSE IF cmd = sWhoami THEN CmdWhoami(usr, cwd_parts, args)
                 ELSE IF cmd = sCal THEN CmdCal(today, cwd_parts, args)
                 ELSE IF cmd = sRev THEN CmdRev(cwd_parts, args)
                 ELSE Result(Error("ValueError", "unknown command: ", cmd), <<>>,
                             <<>>)

Run(t, cwd_parts, usr, today, line) ==
    LET tokens == Parse(Strip(line))
    IN  IF tokens = <<>> THEN Result(NoError, <<>>, cwd_parts)
        ELSE LET cmd  == Head(tokens)
                 args == Tail(tokens)
             IN  IF cmd = sExit
                 THEN Result(Error("SystemExit", "", <<>>), <<>>, cwd_parts)
                 ELSE IF cmd = sLs THEN CmdLs(t, cwd_parts, args)
                 ELSE IF cmd = sCd THEN CmdCd(t, cwd_parts, args)
                 ELSE IF cmd = sWhoami THEN CmdWhoami(usr, cwd_parts, args)
                 ELSE IF cmd = sCal THEN CmdCal(today, cwd_parts, args)
                 ELSE IF cmd = sRev THEN CmdRev(cwd_parts, args)
                 ELSE Result(Error("ValueError", "unknown command: ", cmd), <<>>,
                             cwd_parts)

(***************************************************************************)
(* VFS.from_csv                                                            *)
(***************************************************************************)

B64Chars ==
    {"A", "B", "C", "D", "E", "F", "G", "H", "I", "J", "K", "L", "M", "N",
    "O", "P", "Q", "R", "S", "T", "U", "V", "W", "X", "Y", "Z", "a", "b",
    "c", "d", "e", "f", "g", "h", "i", "j", "k", "l", "m", "n", "o", "p",
    "q", "r", "s", "t", "u", "v", "w", "x", "y", "z", "0", "1", "2", "3",
    "4", "5", "6", "7", "8", "9", "+", "/"}

\* base64.b64decode(c) without validation: TRUE when it returns. Characters
\* outside the alphabet are skipped, a complete padding ends the input, and
\* the input must not end inside a group of four.
RECURSIVE B64Scan(_, _, _)
B64Scan(s, quad_pos, pads) ==
    IF s = <<>> THEN quad_pos = 0
    ELSE IF Head(s) = "="
         THEN IF quad_pos >= 2 /\ quad_pos + pads + 1 >= 4 THEN TRUE
              ELSE B64Scan(Tail(s), quad_pos,
                           IF quad_pos >= 2 THEN pads + 1 ELSE pads)
         ELSE IF Head(s) \notin B64Chars THEN B64Scan(Tail(s), quad_pos, pads)
              ELSE B64Scan(Tail(s), (quad_pos + 1) % 4, 0)

B64Decodes(c) == B64Scan(c, 0, 0)

sPath == <<"p", "a", "t", "h">>
sType == <<"t", "y", "p", "e">>
sOwner == <<"o", "w", "n", "e", "r">>
sDir == <<"d", "i", "r">>
sFile == <<"f", "i", "l", "e">>

\* x or d, for a cell of a row (None when the row is short)
OrElse(x, d) == IF x = None \/ x = <<>> THEN d ELSE x

\* the rows of VFS.from_csv from row i on; the tree is returned as the loop
\* left it
RECURSIVE CsvRows(_, _, _)
CsvRows(t, rows, i) ==
    IF rows = <<>> THEN [err |-> NoError, tree |-> t]
    ELSE LET row == Head(rows)
             p == Strip(OrElse(row.path, <<>>))
             ty == Strip(OrElse(row.type, <<>>))
             o == Strip(OrElse(row.owner, sRoot))
             c == Strip(OrElse(row.content_b64, <<>>))
         IN  IF p = <<>> \/ ty \notin {sDir, sFile}
             THEN [err |-> Error("ValueError", "row: bad values", i), tree |-> t]
             ELSE IF ty = sDir
             THEN LET a == AddDir(t, p, o)
                  IN  IF ~IsOk(a.err) THEN a ELSE CsvRows(a.tree, Tail(rows), i + 1)
             ELSE IF c # <<>> /\ ~B64Decodes(c)
             THEN [err |-> Error("ValueError", "row: content_b64 not valid base64", i),
                   tree |-> t]
             ELSE LET a == AddFile(t, p, o, c)
                  IN  IF ~IsOk(a.err) THEN a ELSE CsvRows(a.tree, Tail(rows), i + 1)

\* FromCsv looking at the header only after the rows were taken
FromCsvLateCheck(f) ==
    IF ~f.exists
    THEN [err |-> Error("FileNotFoundError", "VFS CSV file not found", <<>>),
          tree |-> NewVFS]
    ELSE LET r == CsvRows(NewVFS, f.rows, 2)
         IN  IF ~IsOk(r.err) THEN r
             ELSE IF ~({sPath, sType, sOwner} \subseteq
                          (IF f.fieldnames = None THEN {}
                           ELSE {f.fieldnames[k] : k \in 1..Len(f.fieldnames)}))
             THEN [err |-> Error("ValueError",
                                 "bad CSV header: need path,type,owner[,content_b64]",
                                 <<>>),
                   tree |-> r.tree]
             ELSE r

\* VFS.from_csv. f is the file at the path given: whether it exists, its name
\* without extension, its header (None for an empty file) and its rows.
FromCsv(f) ==
    IF ~f.exists
    THEN [err |-> Error("FileNotFoundError", "VFS CSV file not found", <<>>),
          tree |-> NewVFS]
    ELSE IF ~({sPath, sType, sOwner} \subseteq
                 (IF f.fieldnames = None THEN {}
                  ELSE {f.fieldnames[k] : k \in 1..Len(f.fieldnames)}))
    THEN [err |-> Error("ValueError",
                        "bad CSV header: need path,type,owner[,content_b64]", <<>>),
          tree |-> NewVFS]
    ELSE CsvRows(NewVFS, f.rows, 2)

(***************************************************************************)
(* App                                                                     *)
(***************************************************************************)

\* App._prompt
Prompt(name, cwd_parts) == name \o <<":">> \o AbsString(cwd_parts) \o <<"$", " ">>

\* full.split("$ ", 1)[1] if "$ " in full else full
AfterPrompt(full) ==
    LET hits == {i \in 1..(Len(full) - 1) : full[i] = "$" /\ full[i + 1] = " "}
    IN  IF hits = {} THEN full
        ELSE LET i == CHOOSE k \in hits : \A j \in hits : k <= j
             IN  SubSeq(full, i + 2, Len(full))

\* raw.rstrip("\n")
RECURSIVE RStripNl(_)
RStripNl(s) ==
    IF s # <<>> /\ s[Len(s)] = "\n" THEN RStripNl(SubSeq(s, 1, Len(s) - 1)) ELSE s

\* App._print_line: one line of the text widget
Printed(kind, str) == [kind |-> kind, s |-> str]

\* PrintResult reporting the exit signal as it reports a failure
PrintResultExitAsError(txt, r) ==
    IF ~IsOk(r.err) THEN Append(txt, Printed("error", r.err))
    ELSE IF r.out # <<>> THEN Append(txt, Printed("out", r.out))
    ELSE txt

\* the try statement of App._on_enter and App.run_script: what it prints
\* after the echo
PrintResult(txt, r) ==
    IF r.err.type = "SystemExit" THEN txt
    ELSE IF ~IsOk(r.err) THEN Append(txt, Printed("error", r.err))
    ELSE IF r.out # <<>> THEN Append(txt, Printed("out", r.out))
    ELSE txt

(***************************************************************************)
(* Inputs and bounds                                                       *)
(***************************************************************************)

\* VFS calls made while a tree is built
MaxAdds == 3
\* lines taken by a session, typed or from the script
MaxLines == 2
\* length of a raw path given to the resolver
MaxPathLen == 5

AddPaths ==
    {<<"/">>,
     <<"/", "a">>,
     <<"a", "/", "/", "b", "/">>,
     <<"/", "c">>,
     <<"/", "a", "/", "b", "/", "c">>}
Owners == {sRoot, sUser}
Contents == {None, <<"Q", "Q", "=", "=">>, <<"Q", "g", "=", "=">>}

sAlice == <<"a", "l", "i", "c", "e">>

\* os.environ: USER and USERNAME (None when unset)
Envs ==
    {[USER |-> None, USERNAME |-> None],
     [USER |-> sAlice, USERNAME |-> None],
     [USER |-> <<>>, USERNAME |-> sUser]}

\* dt.date.today(): year and month
Todays == {<<2024, 2>>, <<2026, 11>>}

\* a tabular description with files and directories whose names share
\* prefixes, an empty directory and a row without owner
CsvMixed ==
    [exists |-> TRUE, name |-> <<"m", "i", "x", "e", "d">>,
     fieldnames |-> <<sPath, sType, sOwner, <<"c", "o", "n", "t", "e", "n", "t", "_", "b", "6", "4">>>>,
     rows |-> <<[path |-> <<"/", "b">>, type |-> sDir, owner |-> sAlice, content_b64 |-> <<>>],
                [path |-> <<"/", "a", ".", "t", "x", "t">>, type |-> sFile, owner |-> sAlice,
                 content_b64 |-> <<"Q", "Q", "=", "=">>],
                [path |-> <<" ", "/", "B", " ">>, type |-> sDir, owner |-> sRoot, content_b64 |-> None],
                [path |-> <<"/", "a", "b">>, type |-> sFile, owner |-> <<>>, content_b64 |-> <<>>],
                [path |-> <<"/", "a", "/", "e">>, type |-> sDir, owner |-> sUser, content_b64 |-> <<>>]>>]

\* a tabular description whose second row runs into a file
CsvConflict ==
    [exists |-> TRUE, name |-> <<"c", "o", "n", "f", "l", "i", "c", "t">>,
     fieldnames |-> <<sPath, sType, sOwner>>,
     rows |-> <<[path |-> <<"/", "f">>, type |-> sFile, owner |-> sRoot, content_b64 |-> None],
                [path |-> <<"/", "f", "/", "d">>, type |-> sDir, owner |-> sRoot, content_b64 |-> None]>>]

\* headers that lack a required column (None: the file is empty)
CsvBadHeaders ==
    <<<<sPath, sType>>,
      <<sType, sOwner>>,
      <<sPath, sOwner, <<"c", "o", "n", "t", "e", "n", "t", "_", "b", "6", "4">>>>,
      None>>

\* rows after such a header: none, a good one, a bad one before a good one
CsvRowLists ==
    <<<<>>,
      <<[path |-> <<"/", "d">>, type |-> sDir, owner |-> sUser, content_b64 |-> None]>>,
      <<[path |-> <<"/", "x">>, type |-> <<"l", "i", "n", "k">>, owner |-> None, content_b64 |-> None],
        [path |-> <<"/", "f">>, type |-> sFile, owner |-> None, content_b64 |-> None]>>>>

Digits == <<"1", "2", "3", "4", "5", "6", "7", "8", "9">>

\* the tabular descriptions with such a header
CsvBad ==
    {[exists |-> TRUE, name |-> <<"b", "a", "d", Digits[h], Digits[r]>>,
      fieldnames |-> CsvBadHeaders[h], rows |-> CsvRowLists[r]] :
        h \in 1..Len(CsvBadHeaders), r \in 1..Len(CsvRowLists)}

\* a path at which there is no file
CsvMissing ==
    [exists |-> FALSE, name |-> <<"m", "i", "s", "s", "i", "n", "g">>, fieldnames |-> None, rows |-> <<>>]

CsvFiles == {CsvMixed, CsvConflict, CsvMissing} \cup CsvBad

\* lines typed at the prompt
Lines ==
    {<<"l", "s">>,
     <<"l", "s", " ", "/">>,
     <<"c", "d", " ", "/", "h", "o", "m", "e", "/", "u", "s", "e", "r">>,
     <<"l", "s", " ", "/", "h", "o", "m", "e", "/", "u", "s", "e", "r", "/", "r", "e", "a", "d", "m", "e", ".", "t", "x", "t">>,
     <<"l", "s", " ", "/", "h", "o", "m", "e", "/", "u", "s", "e", "r", "/", "r", "e", "a", "d", "m", "e", ".", "t", "x", "t", "/", "x">>,
     <<"l", "s", " ", "/", "n", "o", "p", "e">>,
     <<"l", "s", " ", "/", "e", "t", "c">>,
     <<"l", "s", " ", "a">>,
     <<"c", "d", " ", "/", "n", "o", "p", "e">>,
     <<"c", "d", " ", "/", "h", "o", "m", "e", "/", "u", "s", "e", "r", "/", "r", "e", "a", "d", "m", "e", ".", "t", "x", "t">>,
     <<"c", "d", " ", ".", ".">>,
     <<"c", "d">>,
     <<"c", "d", " ", "a">>,
     <<"l", "s", " ", "a", ".", "t", "x", "t">>,
     <<"w", "h", "o", "a", "m", "i">>,
     <<"r", "e", "v", " ", "a", "b", "c", " ", "d", "e">>,
     <<"c", "a", "l">>,
     <<"c", "a", "l", " ", "2", "0", "2", "4", "-", "0", "2">>,
     <<"f", "o", "o">>,
     <<"m", "k", "d", "i", "r", " ", "a">>,
     <<"e", "x", "i", "t">>,
     <<" ", " ">>}

\* lines of a script, as readlines() returns them
ScriptLines ==
    {<<"c", "d", " ", "/", "n", "o", "p", "e", "\n">>,
     <<"l", "s">>,
     <<"c", "d", " ", "/", "h", "o", "m", "e", "/", "u", "s", "e", "r", "\n">>,
     <<"e", "x", "i", "t", "\n">>,
     <<" ", "\n">>,
     <<"w", "h", "o", "a", "m", "i", "\n">>}

Scripts == UNION {[1..n -> ScriptLines] : n \in 0..MaxLines}

(***************************************************************************)
(* The program: main() loads a tree, binds a Shell to it and opens the     *)
(* window; the window then takes typed lines and, once, a script.          *)
(***************************************************************************)

\* the record of a call: the operation, its arguments and its outcome
Call(op, arg, owner, content, err, out) ==
    [op |-> op, arg |-> arg, owner |-> owner, content |-> content,
     err |-> err, out |-> out]

NoCall == Call("none", <<>>, <<>>, <<>>, NoError, <<>>)

Init ==
    /\ tree = NewVFS
    /\ vfsname = <<"v", "f", "s">>
    /\ phase = "load"
    /\ cwd = <<>>
    /\ user = <<>>
    /\ text = <<>>
    /\ script = <<>>
    /\ pc = 0
    /\ steps = 0
    /\ last = NoCall
    /\ prev = [tree |-> NewVFS, cwd |-> <<>>]

\* main: vfs = load_default_vfs()
LoadDefault ==
    /\ phase = "load"
    /\ tree' = LoadDefaultVfs
    /\ vfsname' = <<"d", "e", "f", "a", "u", "l", "t">>
    /\ phase' = "ready"
    /\ last' = Call("load_default_vfs", <<>>, <<>>, <<>>, NoError, <<>>)
    /\ prev' = [tree |-> tree, cwd |-> cwd]
    /\ UNCHANGED <<cwd, user, text, script, pc, steps>>

\* main: vfs = VFS.from_csv(args.vfs); a failure ends the program
LoadCsv(f) ==
    /\ phase = "load"
    /\ LET r == FromCsv(f)
       IN  /\ tree' = r.tree
           /\ phase' = IF IsOk(r.err) THEN "ready" ELSE "failed"
           /\ last' = Call("from_csv", f.name, <<>>, <<>>, r.err, <<>>)
    /\ vfsname' = f.name
    /\ prev' = [tree |-> tree, cwd |-> cwd]
    /\ UNCHANGED <<cwd, user, text, script, pc, steps>>

\* Shell.__init__ and App.__init__
StartShell(env) ==
    /\ phase = "ready"
    /\ phase' = "shell"
    /\ cwd' = <<>>
    /\ user' = OrElse(env.USER, OrElse(env.USERNAME, sUser))
    /\ text' = <<Printed("ready", vfsname)>>
    /\ last' = Call("Shell", <<>>, <<>>, <<>>, NoError, <<>>)
    /\ prev' = [tree |-> tree, cwd |-> cwd]
    /\ UNCHANGED <<tree, vfsname, script, pc, steps>>

\* App._on_enter with line typed after the prompt
\* OnEnter with a cd that makes the directories it is asked for
OnEnterCdCreates(line, today) ==
    /\ phase = "shell"
    /\ steps < MaxLines
    /\ LET full   == Prompt(vfsname, cwd) \o line
           cmd    == AfterPrompt(full)
           r      == Run(tree, cwd, user, today, cmd)
           tokens == Parse(Strip(cmd))
       IN  /\ text' = PrintResult(Append(text, Printed("echo", full)), r)
           /\ cwd' = r.cwd
           /\ phase' = IF r.err.type = "SystemExit" THEN "closed" ELSE "shell"
           /\ last' = Call("run", cmd, <<>>, <<>>, r.err, r.out)
           /\ tree' = IF Len(tokens) >= 2 /\ Head(tokens) = sCd
                      THEN Mkdirs(tree, AbspathParts(cwd, tokens[2])).tree
                      ELSE tree
    /\ steps' = steps + 1
    /\ prev' = [tree |-> tree, cwd |-> cwd]
    /\ UNCHANGED <<vfsname, user, script, pc>>

OnEnter(line, today) ==
    /\ phase = "shell"
    /\ steps < MaxLines
    /\ LET full == Prompt(vfsname, cwd) \o line
           cmd  == AfterPrompt(full)
           r    == Run(tree, cwd, user, today, cmd)
       IN  /\ text' = PrintResult(Append(text, Printed("echo", full)), r)
           /\ cwd' = r.cwd
           /\ phase' = IF r.err.type = "SystemExit" THEN "closed" ELSE "shell"
           /\ last' = Call("run", cmd, <<>>, <<>>, r.err, r.out)
    /\ steps' = steps + 1
    /\ prev' = [tree |-> tree, cwd |-> cwd]
    /\ UNCHANGED <<tree, vfsname, user, script, pc>>

\* App.run_script is called (main schedules it once, at startup)
RunScript(lines) ==
    /\ phase = "shell"
    /\ pc = 0
    /\ steps = 0
    /\ script' = lines
    /\ pc' = 1
    /\ phase' = IF lines = <<>> THEN "shell" ELSE "script"
    /\ last' = Call("run_script", <<>>, <<>>, <<>>, NoError, <<>>)
    /\ prev' = [tree |-> tree, cwd |-> cwd]
    /\ UNCHANGED <<tree, vfsname, cwd, user, text, steps>>

\* ScriptFlow with "continue" where run_script has "break"
ScriptFlowContinue(err, i, n) ==
    IF err.type = "SystemExit" THEN [pc |-> i, phase |-> "closed"]
    ELSE [pc |-> i + 1, phase |-> IF i = n THEN "shell" ELSE "script"]

\* the control flow of the loop of App.run_script after line i of n was run
\* with outcome err: return on exit, break on a failure, else the next line
\* (the loop ends after the last one)
ScriptFlow(err, i, n) ==
    IF err.type = "SystemExit" THEN [pc |-> i, phase |-> "closed"]
    ELSE IF ~IsOk(err) THEN [pc |-> i, phase |-> "shell"]
    ELSE [pc |-> i + 1, phase |-> IF i = n THEN "shell" ELSE "script"]

\* one iteration of the loop of App.run_script
\* ScriptStep printing the echo once the line was run
ScriptStepEchoAfter(today) ==
    /\ phase = "script"
    /\ pc <= Len(script)
    /\ LET line == RStripNl(script[pc])
           r    == Run(tree, cwd, user, today, line)
           flow == ScriptFlow(r.err, pc, Len(script))
       IN  IF Strip(line) = <<>>
           THEN /\ pc' = pc + 1
                /\ phase' = IF pc = Len(script) THEN "shell" ELSE "script"
                /\ last' = Call("skip", line, <<>>, <<>>, NoError, <<>>)
                /\ UNCHANGED <<text, cwd>>
           ELSE /\ text' = PrintResult(
                              Append(text, Printed("echo", Prompt(vfsname, r.cwd) \o line)), r)
                /\ cwd' = r.cwd
                /\ last' = Call("run", line, <<>>, <<>>, r.err, r.out)
                /\ pc' = flow.pc
                /\ phase' = flow.phase
    /\ steps' = steps + 1
    /\ prev' = [tree |-> tree, cwd |-> cwd]
    /\ UNCHANGED <<tree, vfsname, user, script>>

ScriptStep(today) ==
    /\ phase = "script"
    /\ pc <= Len(script)
    /\ LET line == RStripNl(script[pc])
           r    == Run(tree, cwd, user, today, line)
           flow == ScriptFlow(r.err, pc, Len(script))
       IN  IF Strip(line) = <<>>
           THEN /\ pc' = pc + 1
                /\ phase' = IF pc = Len(script) THEN "shell" ELSE "script"
                /\ last' = Call("skip", line, <<>>, <<>>, NoError, <<>>)
                /\ UNCHANGED <<text, cwd>>
           ELSE /\ text' = PrintResult(
                              Append(text, Printed("echo", Prompt(vfsname, cwd) \o line)),
                              r)
                /\ cwd' = r.cwd
                /\ last' = Call("run", line, <<>>, <<>>, r.err, r.out)
                /\ pc' = flow.pc
                /\ phase' = flow.phase
    /\ steps' = steps + 1
    /\ prev' = [tree |-> tree, cwd |-> cwd]
    /\ UNCHANGED <<tree, vfsname, user, script>>

Next ==
    \/ LoadDefault
    \/ \E f \in CsvFiles : LoadCsv(f)
    \/ \E env \in Envs : StartShell(env)
    \/ \E line \in Lines, today \in Todays : OnEnter(line, today)
    \/ \E lines \in Scripts : RunScript(lines)
    \/ \E today \in Todays : ScriptStep(today)

Spec == Init /\ [][Next]_vars

(***************************************************************************)
(* The tree under construction: any calls of add_dir and add_file on a     *)
(* fresh VFS                                                               *)
(***************************************************************************)

DoAddDir(path, owner) ==
    /\ phase = "load"
    /\ steps < MaxAdds
    /\ LET r == AddDir(tree, path, owner)
       IN  /\ tree' = r.tree
           /\ last' = Call("add_dir", path, owner, <<>>, r.err, <<>>)
    /\ steps' = steps + 1
    /\ prev' = [tree |-> tree, cwd |-> cwd]
    /\ UNCHANGED <<vfsname, phase, cwd, user, text, script, pc>>

DoAddFile(path, owner, content) ==
    /\ phase = "load"
    /\ steps < MaxAdds
    /\ LET r == AddFile(tree, path, owner, content)
       IN  /\ tree' = r.tree
           /\ last' = Call("add_file", path, owner, content, r.err, <<>>)
    /\ steps' = steps + 1
    /\ prev' = [tree |-> tree, cwd |-> cwd]
    /\ UNCHANGED <<vfsname, phase, cwd, user, text, script, pc>>

NextTree ==
    \/ \E path \in AddPaths, owner \in Owners : DoAddDir(path, owner)
    \/ \E path \in AddPaths, owner \in Owners, content \in Contents :
           DoAddFile(path, owner, content)

SpecTree == Init /\ [][NextTree]_vars

(***************************************************************************)
(* The path resolver on its own: a current path and a raw path string, to  *)
(* which abspath_parts (once, and again on its own result) and chdir are   *)
(* applied                                                                 *)
(***************************************************************************)

sA == <<"a">>

\* a tree with directories at depth 0, 1 and 2
NormTree == AddDir(NewVFS, <<"/", "a", "/", "a">>, sRoot).tree

\* the directories of NormTree: the values Shell.cwd_parts can take on it
NormCwds == {<<>>, <<sA>>, <<sA, sA>>}

NormChars == {" ", ".", "/", "a"}

NormPaths == UNION {[1..n -> NormChars] : n \in 0..MaxPathLen}

NormCall(op, c, path, out, err, c2, out2) ==
    [op |-> op, cwd |-> c, path |-> path, out |-> out, err |-> err,
     cwd2 |-> c2, out2 |-> out2]

InitNorm ==
    /\ tree = NormTree
    /\ vfsname = <<"v", "f", "s">>
    /\ phase = "norm"
    /\ cwd = <<>>
    /\ user = <<>>
    /\ text = <<>>
    /\ script = <<>>
    /\ pc = 0
    /\ steps = 0
    /\ \E c \in NormCwds, path \in NormPaths :
           last = NormCall("input", c, path, <<>>, NoError, <<>>, <<>>)
    /\ prev = [tree |-> NormTree, cwd |-> <<>>]

\* vfs.abspath_parts(cwd, path)
Normalize ==
    /\ phase = "norm"
    /\ last.op = "input"
    /\ last' = [last EXCEPT !.op = "abspath_parts",
                            !.out = AbspathParts(last.cwd, last.path)]
    /\ UNCHANGED <<tree, vfsname, phase, cwd, user, text, script, pc, steps, prev>>

\* vfs.abspath_parts(c2, "/" + "/".join(out)) on the result out of the first
Renormalize(c2) ==
    /\ phase = "norm"
    /\ last.op = "abspath_parts"
    /\ last' = [last EXCEPT !.op = "renorm", !.cwd2 = c2,
                            !.out2 = AbspathParts(c2, AbsString(last.out))]
    /\ UNCHANGED <<tree, vfsname, phase, cwd, user, text, script, pc, steps, prev>>

\* vfs.chdir(cwd, path)
ChangeDirectory ==
    /\ phase = "norm"
    /\ last.op = "input"
    /\ LET r == Chdir(tree, last.cwd, last.path)
       IN  last' = [last EXCEPT !.op = "chdir", !.out = r.val, !.err = r.err]
    /\ UNCHANGED <<tree, vfsname, phase, cwd, user, text, script, pc, steps, prev>>

NextNorm ==
    \/ Normalize
    \/ \E c2 \in NormCwds : Renormalize(c2)
    \/ ChangeDirectory

SpecNorm == InitNorm /\ [][NextNorm]_vars

(***************************************************************************)
(* Properties                                                              *)
(***************************************************************************)

\* the tokens of the line of the last call
LastTokens == Parse(Strip(last.arg))

\* the last call was Shell.run on a line whose command name is cmd
LastRan(cmd) == last.op = "run" /\ LastTokens # <<>> /\ Head(LastTokens) = cmd

\* the last call raised something other than SystemExit
LastFailed == ~IsOk(last.err) /\ last.err.type # "SystemExit"

\* C1: when a line of the script fails with anything other than the exit
\* signal, the runner prints the echo of that line and one error line for it
\* and leaves the loop; once the loop is left, it is never entered again and
\* its position never moves, so no later line of the script is echoed or run.
C1_AbortOnError ==
    [][ /\ (phase = "script" /\ steps' = steps + 1 /\ last'.op = "run"
               /\ ~IsOk(last'.err) /\ last'.err.type # "SystemExit")
           => /\ phase' = "shell"
              /\ pc' = pc
              /\ text' = text \o <<Printed("echo", Prompt(vfsname, cwd) \o last'.arg),
                                   Printed("error", last'.err)>>
        /\ (phase # "script" /\ pc > 0)
           => (phase' # "script" /\ pc' = pc /\ script' = script) ]_vars

\* C1 witness: a script was left at a failing line with lines still to come
C1_Witness ==
    /\ phase = "shell"
    /\ pc >= 1 /\ pc < Len(script)
    /\ steps = pc
    /\ last.op = "run" /\ LastFailed
    /\ text[Len(text)].kind = "error"

\* C2: in a session the identity never changes, and the current path changes
\* only in a step that ran a cd command which succeeded.
C2_CwdOnlyByCd ==
    [][ (phase \in {"shell", "script"})
        => /\ user' = user
           /\ (cwd' # cwd
               => /\ last'.op = "run"
                  /\ Parse(Strip(last'.arg)) # <<>>
                  /\ Head(Parse(Strip(last'.arg))) = sCd
                  /\ IsOk(last'.err)) ]_vars

\* C2 witness: a cd that failed away from the root, the current path kept
C2_Witness ==
    /\ LastRan(sCd) /\ LastFailed
    /\ cwd # <<>>
    /\ cwd = prev.cwd

\* the absolute path "/" + "/".join(p) resolves to a node of t
Resolves(t, p) == IsOk(Get(t, <<>>, AbsString(p)).err)

LastAdded == last.op \in {"add_dir", "add_file"}

\* C3 as claimed: every path that resolved before an add_dir or add_file call
\* resolves after it.
C3_NeverPruned ==
    LastAdded => \A p \in DOMAIN prev.tree : Resolves(prev.tree, p) => Resolves(tree, p)

\* C3: every path that resolved before an add_dir or add_file call resolves
\* after it, except the paths strictly below the path of a successful add_file
\* that named an existing directory.
C3_PrunedOnlyByFileOverDir ==
    LastAdded =>
        \A p \in DOMAIN prev.tree :
            Resolves(prev.tree, p) =>
                \/ Resolves(tree, p)
                \/ /\ last.op = "add_file" /\ IsOk(last.err)
                   /\ VSplit(last.arg) \in DOMAIN prev.tree
                   /\ IsDir(prev.tree[VSplit(last.arg)])
                   /\ IsPrefix(VSplit(last.arg), p)
                   /\ p # VSplit(last.arg)

\* C3 witness: an add_file replaced a directory that had children
C3_Witness ==
    /\ last.op = "add_file" /\ IsOk(last.err)
    /\ \E p \in DOMAIN prev.tree : Resolves(prev.tree, p) /\ ~Resolves(tree, p)

sDefault == <<"d", "e", "f", "a", "u", "l", "t">>
sReadme == <<"r", "e", "a", "d", "m", "e", ".", "t", "x", "t">>

InSession == phase \in {"shell", "script", "closed"}

\* a fresh session took "cd /home/user", which printed nothing, and then "ls"
FreshCdThenLs ==
    /\ InSession
    /\ steps = 2
    /\ Len(text) >= 3
    /\ text[2] = Printed("echo", Prompt(vfsname, <<>>) \o <<"c", "d", " ", "/", "h", "o", "m", "e", "/", "u", "s", "e", "r">>)
    /\ text[3].kind = "echo"
    /\ last.op = "run" /\ last.arg = sLs

\* the last line taken was "ls /"
LsOfRoot == InSession /\ last.op = "run" /\ last.arg = <<"l", "s", " ", "/">>

\* C4 as claimed: on the default tree, "cd /home/user" then "ls" in a fresh
\* session returns "readme.txt", and "ls /" returns "home/  etc/  var/".
C4_DefaultTreeAsClaimed ==
    vfsname = sDefault =>
        /\ FreshCdThenLs => (IsOk(last.err) /\ last.out = sReadme)
        /\ LsOfRoot => (IsOk(last.err) /\ last.out = <<"h", "o", "m", "e", "/", " ", " ", "e", "t", "c", "/", " ", " ", "v", "a", "r", "/">>)

\* C4: on the default tree, "cd /home/user" then "ls" in a fresh session
\* returns (and prints) "readme.txt", and "ls /" returns "etc/  home/  var/".
C4_DefaultTree ==
    vfsname = sDefault =>
        /\ FreshCdThenLs =>
               /\ IsOk(last.err) /\ last.out = sReadme
               /\ text[Len(text)] = Printed("out", sReadme)
        /\ LsOfRoot => (IsOk(last.err) /\ last.out = <<"e", "t", "c", "/", " ", " ", "h", "o", "m", "e", "/", " ", " ", "v", "a", "r", "/">>)

\* C4 witness: the two lines were taken on the default tree
C4_Witness ==
    /\ vfsname = sDefault
    /\ FreshCdThenLs
    /\ cwd = <<<<"h", "o", "m", "e">>, <<"u", "s", "e", "r">>>>
    /\ last.out = sReadme

\* the node ls is asked for: the path given, from the current path, or the
\* current directory
LsTarget ==
    IF Len(LastTokens) > 1 THEN AbspathParts(prev.cwd, LastTokens[2]) ELSE prev.cwd

\* the children of the node at p
Kids(p) == {q \in DOMAIN tree : Len(q) = Len(p) + 1 /\ IsPrefix(p, q)}

\* the place of child q among its siblings in ascending order of name
Rank(q) ==
    1 + Cardinality({r \in Kids(SubSeq(q, 1, Len(q) - 1)) :
                        StrLess(r[Len(r)], q[Len(q)])})

\* what ls is to print for the directory at p
Listing(p) ==
    Join([i \in 1..Cardinality(Kids(p)) |->
             LET q == CHOOSE k \in Kids(p) : Rank(k) = i
             IN  q[Len(q)] \o (IF tree[q].type = "dir" THEN <<"/">> ELSE <<>>)],
         <<" ", " ">>)

\* C5: ls of a path that resolves returns, for a file, the last segment of the
\* path, and for a directory its children, each once, in ascending order of
\* name, directories with "/" appended, joined by two blanks.
C5_LsFormat ==
    (InSession /\ LastRan(sLs) /\ LsTarget \in DOMAIN tree) =>
        /\ IsOk(last.err)
        /\ last.out = IF tree[LsTarget].type = "file"
                      THEN LsTarget[Len(LsTarget)]
                      ELSE Listing(LsTarget)

\* C5 witness: ls listed a directory holding files and several directories
C5_Witness ==
    /\ InSession /\ LastRan(sLs) /\ IsOk(last.err)
    /\ LsTarget \in DOMAIN tree
    /\ \E q \in Kids(LsTarget) : tree[q].type = "file"
    /\ Cardinality({q \in Kids(LsTarget) : tree[q].type = "dir"}) >= 2

\* C6: in every state of a session, ls without argument and ls of "/" followed
\* by the current segments joined by "/" give the same result or the same
\* failure.
C6_LsDefaultIsCwd ==
    InSession =>
        Run(tree, cwd, user, <<2024, 2>>, sLs)
            = Run(tree, cwd, user, <<2024, 2>>, sLs \o <<" ">> \o AbsString(cwd))

\* C6 witness: ls without argument listed a directory other than the root
C6_Witness ==
    /\ InSession /\ LastRan(sLs) /\ Len(LastTokens) = 1
    /\ IsOk(last.err) /\ last.out # <<>>
    /\ cwd # <<>>

\* C7: if out is what the resolver gives for a current path and a raw path,
\* then the resolver gives out again for "/" + "/".join(out), from any
\* current path, and out has no empty segment, no "." and no "..".
C7_Idempotent ==
    (phase = "norm" /\ last.op = "renorm") =>
        /\ last.out2 = last.out
        /\ \A i \in 1..Len(last.out) : last.out[i] \notin {<<>>, <<".">>, <<".", ".">>}

\* k segments "..", joined by "/"
DotDots(k) == Join([i \in 1..k |-> <<".", ".">>], <<"/">>)

\* the raw path of the last call is k >= 1 segments "..", at least as many as
\* the current path has segments
UpToRootOrBeyond ==
    \E k \in 1..MaxPathLen : last.path = DotDots(k) /\ k >= Len(last.cwd)

\* C8: the resolver and change_directory, given a path of k ".." segments
\* from a current path of at most k segments, yield the root path without an
\* error; so change_directory([], "..") yields [].
C8_ClampedAtRoot ==
    (phase = "norm" /\ last.op \in {"abspath_parts", "chdir"} /\ UpToRootOrBeyond)
        => (last.out = <<>> /\ IsOk(last.err))

\* C8 witness: change_directory went up more segments than the current path
\* has
C8_Witness ==
    /\ phase = "norm" /\ last.op = "chdir"
    /\ last.path = DotDots(2)
    /\ Len(last.cwd) = 1
    /\ last.out = <<>>

\* a segment of p before its last is a file of the tree
ThroughFile(p) ==
    \E i \in 1..(Len(p) - 1) :
        SubSeq(p, 1, i) \in DOMAIN tree /\ tree[SubSeq(p, 1, i)].type = "file"

\* C9 as claimed: ls of a path that passes through a file fails with
\* NotADirectory, and ls of a path with a missing segment under directories
\* fails with PathNotFound.
C9_AsClaimed ==
    (InSession /\ LastRan(sLs) /\ LsTarget \notin DOMAIN tree) =>
        IF ThroughFile(LsTarget)
        THEN last.err.type = "NotADirectoryError"
        ELSE last.err.type = "KeyError"

\* C9: ls of a path that does not resolve fails with PathNotFound naming the
\* normalized absolute path, whether a segment is missing under directories or
\* the path passes through a file.
C9_NotFoundAlsoThroughFile ==
    (InSession /\ LastRan(sLs) /\ LsTarget \notin DOMAIN tree) =>
        /\ last.err.type = "KeyError"
        /\ last.err.msg = "path not found: "
        /\ last.err.arg = <<"/">> \o Join(LsTarget, <<"/">>)

\* C9 witness: ls of a path through a file failed
C9_Witness ==
    /\ InSession /\ LastRan(sLs)
    /\ ThroughFile(LsTarget)
    /\ last.err.type = "KeyError"

\* the last call was add_file on a path that held a file with other content
SecondAddFile ==
    /\ last.op = "add_file" /\ IsOk(last.err)
    /\ VSplit(last.arg) \in DOMAIN prev.tree
    /\ prev.tree[VSplit(last.arg)].type = "file"
    /\ prev.tree[VSplit(last.arg)].content # last.content

\* C10: add_file on a path that holds a file with other content leaves a file
\* node there with the owner and content of this call, and every other node
\* as it was.
C10_SecondWriteWins ==
    SecondAddFile =>
        LET at == VSplit(last.arg)
        IN  /\ tree[at] = [name |-> at[Len(at)], type |-> "file", owner |-> last.owner,
                           content |-> IF last.content = None THEN <<>> ELSE last.content]
            /\ DOMAIN tree = DOMAIN prev.tree
            /\ \A q \in DOMAIN tree \ {at} : tree[q] = prev.tree[q]

\* C10 witness: the second add_file was made beside a directory with a child
C10_Witness ==
    /\ SecondAddFile
    /\ tree[VSplit(last.arg)].content = last.content
    /\ \E q \in DOMAIN tree : Len(q) = 2 /\ ~IsPrefix(VSplit(last.arg), q)

\* the tabular description the last from_csv call was given
LastCsv == CHOOSE f \in CsvFiles : f.name = last.arg

\* the header of f lacks one of the columns path, type, owner
LacksColumn(f) ==
    \E c \in {<<"p", "a", "t", "h">>, <<"t", "y", "p", "e">>, <<"o", "w", "n", "e", "r">>} :
        \/ f.fieldnames = <<"None">>
        \/ \A k \in 1..Len(f.fieldnames) : f.fieldnames[k] # c

\* C11: loading a tabular description whose header lacks path, type or owner
\* fails with the header's ImportFormatError whatever its rows are (also when
\* the first row is a bad one), the tree holds the root alone, and no session
\* is started.
C11_BadHeaderFailsFirst ==
    (last.op = "from_csv" /\ LastCsv.exists /\ LacksColumn(LastCsv)) =>
        /\ last.err.type = "ValueError"
        /\ last.err.msg = "bad CSV header: need path,type,owner[,content_b64]"
        /\ DOMAIN tree = {<<>>}
        /\ phase = "failed"

\* C11 witness: a description without the owner column and with rows was
\* refused
C11_Witness ==
    /\ last.op = "from_csv" /\ ~IsOk(last.err)
    /\ LastCsv.exists
    /\ LastCsv.fieldnames = <<<<"p", "a", "t", "h">>, <<"t", "y", "p", "e">>>>
    /\ LastCsv.rows # <<>>

\* the command names Shell.run knows
KnownCommands ==
    {<<"e", "x", "i", "t">>, <<"l", "s">>, <<"c", "d">>,
     <<"w", "h", "o", "a", "m", "i">>, <<"c", "a", "l">>, <<"r", "e", "v">>}

\* the last call was Shell.run on a line whose first token is no known command
LastUnknown ==
    last.op = "run" /\ LastTokens # <<>> /\ Head(LastTokens) \notin KnownCommands

\* C12: a line whose first token is none of exit, ls, cd, whoami, cal, rev
\* fails with UnknownCommand (the ValueError "unknown command: " followed by
\* that token), and the working directory and the tree are what they were
\* before the call.
C12_UnknownCommand ==
    LastUnknown =>
        /\ last.err.type = "ValueError"
        /\ last.err.msg = "unknown command: "
        /\ last.err.arg = Head(LastTokens)
        /\ last.out = <<>>
        /\ cwd = prev.cwd
        /\ tree = prev.tree

\* C12 witness: an unknown command with an argument was given below the root
C12_Witness ==
    /\ LastUnknown
    /\ Len(LastTokens) = 2
    /\ prev.cwd # <<>>
    /\ ~IsOk(last.err)

\* C13: when a line of the script is the exit command, the runner prints the
\* echo of that line and nothing else (no error line), the window is closed
\* with the loop position still on that line, and from a closed window no
\* step is taken: no later line of the script is echoed or run.
C13_ScriptExitStops ==
    [][ /\ (phase = "script" /\ steps' = steps + 1 /\ last'.op = "run"
               /\ last'.err.type = "SystemExit")
           => /\ phase' = "closed"
              /\ pc' = pc
              /\ cwd' = cwd
              /\ text' = Append(text, Printed("echo", Prompt(vfsname, cwd) \o last'.arg))
        /\ phase = "closed" => UNCHANGED <<text, pc, cwd, phase, last>> ]_vars

\* C13 witness: the script was left at an exit line with a line still to come
C13_Witness ==
    /\ phase = "closed"
    /\ pc >= 1 /\ pc < Len(script)
    /\ last.op = "run" /\ last.err.type = "SystemExit"
    /\ text[Len(text)].kind = "echo"

\* C14: a step that gives a line to Shell.run (from the input field or from
\* the script, succeeding, failing or exit) leaves the tree as it was, node
\* for node; the tree changes only while it is being loaded.
C14_CommandsKeepTree ==
    [][ /\ last'.op \in {"run", "skip"} => tree' = tree
        /\ tree' # tree => phase = "load" ]_vars

\* C14 witness: a cd into a non-empty directory succeeded and the tree is
\* the one there was before it
C14_Witness ==
    /\ LastRan(<<"c", "d">>) /\ IsOk(last.err)
    /\ cwd # prev.cwd
    /\ \E p \in DOMAIN tree : Len(p) = Len(cwd) + 1 /\ IsPrefix(cwd, p)
    /\ tree = prev.tree

\* C15: the root is a directory owned by "root", in the fresh tree and after
\* every sequence of add_dir and add_file calls.
C15_RootOwnedByRoot ==
    /\ <<>> \in DOMAIN tree
    /\ tree[<<>>].type = "dir"
    /\ tree[<<>>].owner = <<"r", "o", "o", "t">>

\* the last call went through _mkdirs: add_dir, or add_file on a path that
\* has a segment
LastMkdirs ==
    \/ last.op = "add_dir"
    \/ last.op = "add_file" /\ VSplit(last.arg) # <<>>

\* the segments _mkdirs was given by the last call
MkSegs ==
    IF last.op = "add_dir" THEN VSplit(last.arg)
    ELSE SubSeq(VSplit(last.arg), 1, Len(VSplit(last.arg)) - 1)

\* the path of the first k of those segments
MkPrefix(k) == SubSeq(MkSegs, 1, k)

\* one of those segments was a file before the call
MkConflict ==
    \E k \in 1..Len(MkSegs) :
        MkPrefix(k) \in DOMAIN prev.tree /\ prev.tree[MkPrefix(k)].type = "file"

\* C16: _mkdirs fails with the conflict error exactly when one of its segments
\* was a file before the call. When it succeeds, every segment is a directory
\* of that name; one that was missing is owned by "root" and one that existed
\* keeps its owner (add_dir then sets the owner of the last one, the node
\* _mkdirs returned, and add_file puts its file below that node).
C16_EnsureDirectoryPath ==
    LastMkdirs =>
        /\ (last.err.msg = "path conflicts with file") <=> MkConflict
        /\ ~MkConflict => IsOk(last.err)
        /\ IsOk(last.err) =>
              /\ \A k \in 1..Len(MkSegs) :
                    LET q == MkPrefix(k)
                    IN  /\ q \in DOMAIN tree
                        /\ tree[q].type = "dir"
                        /\ tree[q].name = MkSegs[k]
                        /\ IF last.op = "add_dir" /\ k = Len(MkSegs)
                           THEN tree[q].owner = last.owner
                           ELSE IF q \in DOMAIN prev.tree
                           THEN tree[q].owner = prev.tree[q].owner
                           ELSE tree[q].owner = <<"r", "o", "o", "t">>
              /\ last.op = "add_dir" /\ MkSegs = <<>> => tree[<<>>].owner = last.owner
              /\ last.op = "add_file" =>
                    /\ VSplit(last.arg) \in DOMAIN tree
                    /\ tree[VSplit(last.arg)].type = "file"

\* C16 witness: a call went through a directory that existed with another
\* owner than "root" and made a missing one below it
C16_Witness ==
    /\ LastMkdirs /\ IsOk(last.err)
    /\ Len(MkSegs) >= 2
    /\ \E k \in 1..Len(MkSegs), j \in 1..Len(MkSegs) :
          /\ k < j
          /\ MkPrefix(k) \in DOMAIN prev.tree
          /\ prev.tree[MkPrefix(k)].owner # <<"r", "o", "o", "t">>
          /\ tree[MkPrefix(k)].owner = prev.tree[MkPrefix(k)].owner
          /\ MkPrefix(j) \notin DOMAIN prev.tree
          /\ j < Len(MkSegs) \/ last.op = "add_file"
          /\ tree[MkPrefix(j)].owner = <<"r", "o", "o", "t">>

\* the last call was add_file on a path whose last segment was a directory
FileOverDir ==
    /\ last.op = "add_file"
    /\ VSplit(last.arg) \in DOMAIN prev.tree
    /\ VSplit(last.arg) # <<>>
    /\ prev.tree[VSplit(last.arg)].type = "dir"

BlankHere == \A k \in 1..Len(script[pc]) : script[pc][k] \in {" ", "\n"}

\* C18: a step of the script loop on a blank line prints nothing and runs
\* nothing. On any other line it appends the echo first, made of the prompt
\* with the working directory as it was before the line ran and the line, and
\* after it at most one line: the output or the error of this line.
C18_EchoBeforeResult ==
    [][ (phase = "script" /\ steps' = steps + 1) =>
           /\ BlankHere <=> last'.op = "skip"
           /\ ~BlankHere <=> last'.op = "run"
           /\ last'.op = "skip" => (text' = text /\ cwd' = cwd)
           /\ last'.op = "run" =>
                 /\ Len(text') \in {Len(text) + 1, Len(text) + 2}
                 /\ SubSeq(text', 1, Len(text)) = text
                 /\ text'[Len(text) + 1].kind = "echo"
                 /\ text'[Len(text) + 1].s = Prompt(vfsname, cwd) \o last'.arg
                 /\ Len(text') = Len(text) + 2 =>
                       \/ /\ text'[Len(text) + 2].kind = "out"
                          /\ IsOk(last'.err)
                          /\ text'[Len(text) + 2].s = last'.out
                       \/ /\ text'[Len(text) + 2].kind = "error"
                          /\ text'[Len(text) + 2].s = last'.err ]_vars

\* C18 witness: the script ran a cd that succeeded, and its echo, the last
\* line printed, shows the directory the session was in before
C18_Witness ==
    /\ pc = steps + 1 /\ steps >= 1
    /\ LastRan(<<"c", "d">>) /\ IsOk(last.err)
    /\ cwd # prev.cwd
    /\ text[Len(text)].kind = "echo"
    /\ text[Len(text)].s = Prompt(vfsname, prev.cwd) \o last.arg

\* taking from the node at path at the children named in p one after the
\* other stays in t and ends at a directory
RECURSIVE Descends(_, _, _)
Descends(t, at, p) ==
    IF p = <<>> THEN at \in DOMAIN t /\ t[at].type = "dir"
    ELSE /\ at \in DOMAIN t
         /\ Append(at, Head(p)) \in DOMAIN t
         /\ Descends(t, Append(at, Head(p)), Tail(p))

\* C19: in a session, after any lines given to it, the working directory has
\* no empty, "." or ".." segment, and walking it from the root ends at a node
\* of the tree that is a directory.
C19_CwdIsDirectory ==
    (phase \in {"shell", "script", "closed"}) =>
        /\ \A k \in 1..Len(cwd) : cwd[k] \notin {<<>>, <<".">>, <<".", ".">>}
        /\ Descends(tree, <<>>, cwd)

\* C19 witness: after a cd that failed on a file, a cd took the session two
\* levels below the root
C19_Witness ==
    /\ phase \in {"shell", "script"}
    /\ steps = 2
    /\ \E k \in 1..Len(text) :
          text[k].kind = "error" /\ text[k].s.type = "NotADirectoryError"
    /\ LastRan(<<"c", "d">>) /\ IsOk(last.err)
    /\ Len(cwd) = 2 /\ prev.cwd = <<>>

\* the last add_dir or add_file call failed with the conflict error
LastConflict ==
    /\ last.op \in {"add_dir", "add_file"}
    /\ last.err.type = "ValueError"
    /\ last.err.msg = "path conflicts with file"

\* C20: when add_dir or add_file fails with the conflict error, the tree is
\* the tree there was before the call (same nodes, same owners), and every
\* segment before the one that is a file was a directory already.
C20_ConflictLeavesTree ==
    LastConflict =>
        /\ tree = prev.tree
        /\ \E k \in 1..Len(MkSegs) :
              /\ MkPrefix(k) \in DOMAIN prev.tree
              /\ prev.tree[MkPrefix(k)].type = "file"
              /\ \A j \in 1..(k - 1) :
                    /\ MkPrefix(j) \in DOMAIN prev.tree
                    /\ prev.tree[MkPrefix(j)].type = "dir"

\* C20 witness: an add_dir went through a directory owned by another than the
\* caller and failed on a file below it
C20_Witness ==
    /\ LastConflict
    /\ last.op = "add_dir"
    /\ Len(MkSegs) = 3
    /\ prev.tree[MkPrefix(1)].type = "dir"
    /\ prev.tree[MkPrefix(1)].owner # last.owner
    /\ prev.tree[MkPrefix(2)].type = "file"
    /\ MkPrefix(3) \notin DOMAIN tree

====
